---- MODULE Spec2Model ----
\* A model of syncstage's rename command (syncstage/commands/rename.py) and of
\* the text helpers it uses (syncstage/utils.py).  File names are sequences of
\* one-character strings, so that every text transformation of the pipeline is
\* computed character by character, as the Python code computes it.
EXTENDS Integers, Sequences, FiniteSets, TLC

\* ------------------------------------------------------------------------
\* Characters and strings
\* ------------------------------------------------------------------------

LowerSeq == <<"a","b","c","d","e","f","g","h","i","j","k","l","m",
              "n","o","p","q","r","s","t","u","v","w","x","y","z">>
UpperSeq == <<"A","B","C","D","E","F","G","H","I","J","K","L","M",
              "N","O","P","Q","R","S","T","U","V","W","X","Y","Z">>
DigitSeq == <<"0","1","2","3","4","5","6","7","8","9">>

Range(f) == {f[i] : i \in DOMAIN f}

LowerSet == Range(LowerSeq)
UpperSet == Range(UpperSeq)
DigitSet == Range(DigitSeq)

\* str.lower / str.upper on one character of the model's (ASCII) alphabet
ToLowerMap == [c \in UpperSet |-> LowerSeq[CHOOSE i \in 1..26 : UpperSeq[i] = c]]
ToUpperMap == [c \in LowerSet |-> UpperSeq[CHOOSE i \in 1..26 : LowerSeq[i] = c]]
LowerCh(c) == IF c \in UpperSet THEN ToLowerMap[c] ELSE c
UpperCh(c) == IF c \in LowerSet THEN ToUpperMap[c] ELSE c

Lower(s) == [i \in 1..Len(s) |-> LowerCh(s[i])]
Upper(s) == [i \in 1..Len(s) |-> UpperCh(s[i])]

IsAlpha(c) == c \in LowerSet \cup UpperSet
IsDigit(c) == c \in DigitSet
IsAlnum(c) == IsAlpha(c) \/ IsDigit(c)
\* str.isspace / regex \s: the only whitespace of the alphabet is the blank
IsSpace(c) == c = " "

\* str.capitalize: first character upper-cased, the rest lower-cased
Capitalize(s) == [i \in 1..Len(s) |-> IF i = 1 THEN UpperCh(s[i]) ELSE LowerCh(s[i])]

\* s[i:] and s[:i] with Python's 0-based bounds
From(s, i) == SubSeq(s, i + 1, Len(s))
Upto(s, i) == SubSeq(s, 1, i)

\* s.startswith(a, at) for the 1-based position at
HasAt(s, a, at) ==
    /\ at + Len(a) - 1 <= Len(s)
    /\ \A k \in 1..Len(a) : s[at + k - 1] = a[k]

StartsWith(s, a) == HasAt(s, a, 1)

\* a in s
Contains(s, a) == \E at \in 1..(Len(s) - Len(a) + 1) : HasAt(s, a, at)

\* str.replace(a, b) for a non-empty a: leftmost, non-overlapping occurrences
RECURSIVE ReplaceFrom(_, _, _, _)
ReplaceFrom(s, a, b, at) ==
    IF at > Len(s) THEN <<>>
    ELSE IF HasAt(s, a, at) THEN b \o ReplaceFrom(s, a, b, at + Len(a))
    ELSE <<s[at]>> \o ReplaceFrom(s, a, b, at + 1)

Replace(s, a, b) == IF Contains(s, a) THEN ReplaceFrom(s, a, b, 1) ELSE s

\* the characters of s that satisfy keep, in order
RECURSIVE DropChars(_, _)
DropChars(s, bad) ==
    IF s = <<>> THEN <<>>
    ELSE (IF Head(s) \in bad THEN <<>> ELSE <<Head(s)>>) \o DropChars(Tail(s), bad)

\* str.strip() for the blank
RECURSIVE LStrip(_)
LStrip(s) == IF s # <<>> /\ IsSpace(Head(s)) THEN LStrip(Tail(s)) ELSE s
RECURSIVE RStrip(_)
RStrip(s) == IF s # <<>> /\ IsSpace(s[Len(s)]) THEN RStrip(Upto(s, Len(s) - 1)) ELSE s
Strip(s) == RStrip(LStrip(s))

\* SPACE_RE.sub(" ", s): every run of whitespace becomes one blank
RECURSIVE CollapseSpaces(_)
CollapseSpaces(s) ==
    IF s = <<>> THEN <<>>
    ELSE IF IsSpace(Head(s)) THEN <<" ">> \o CollapseSpaces(LStrip(s))
    ELSE <<Head(s)>> \o CollapseSpaces(Tail(s))

\* str(n) for n >= 0
RECURSIVE Str(_)
Str(n) == IF n < 10 THEN <<DigitSeq[n + 1]>> ELSE Str(n \div 10) \o <<DigitSeq[(n % 10) + 1]>>

\* str.zfill(w) for a string of digits
RECURSIVE ZFill(_, _)
ZFill(s, w) == IF Len(s) >= w THEN s ELSE ZFill(<<"0">> \o s, w)

\* name.rfind("."): 0-based index of the last dot, -1 when there is none
RFindDot(s) ==
    LET dots == {i \in 1..Len(s) : s[i] = "."}
    IN IF dots = {} THEN -1 ELSE (CHOOSE i \in dots : \A j \in dots : j <= i) - 1

CountDots(s) == Cardinality({i \in 1..Len(s) : s[i] = "."})

\* ------------------------------------------------------------------------
\* syncstage/utils.py
\* ------------------------------------------------------------------------

\* SAFE_CHARS = "-_.() []{}@~^+=,"
SAFE_CHARS == {"-", "_", ".", "(", ")", " ", "[", "]", "{", "}", "@", "~", "^", "+", "=", ","}

\* the class of normalize_stem's symbol regex, restricted to the ASCII characters
\* a TLA+ string can hold (the back quote, the interpunct and the bullet are left out)
SYMBOLS == {"\"", "'", "?", "!", "^", "/", "\\", "|", "*", "<", ">"}

SMALL_WORDS == { <<"a">>, <<"a","n">>, <<"a","n","d">>, <<"a","s">>, <<"a","t">>,
                 <<"b","u","t">>, <<"b","y">>, <<"f","o","r">>, <<"f","r","o","m">>,
                 <<"i","n">>, <<"o","f">>, <<"o","n">>, <<"o","r">>, <<"t","h","e">>,
                 <<"t","o">>, <<"v","s">>, <<"v","i","a">> }

ACRONYMS == { <<"P","D","F">>, <<"C","A","D">>, <<"R","F">>, <<"S","D","R">>,
              <<"S","T","M","3","2">>, <<"F","P","G","A">>, <<"S","A","R">>,
              <<"G","N","S","S">>, <<"I","O","T">>, <<"C","P","U">>, <<"G","P","U">>,
              <<"G","P","S">>, <<"U","S","B">>, <<"I","2","C">>, <<"S","P","I">>,
              <<"C","A","N">>, <<"A","I">>, <<"M","L">> }

\* sanitize_filename.ok
SanitizeOk(ch) == IsAlnum(ch) \/ ch \in SAFE_CHARS \/ IsSpace(ch)

\* sanitize_filename(name, mode=mode), with the default keep and collapse_spaces
sanitize_filename(name, mode) ==
    LET cleaned ==
            IF mode = "underscore"
            THEN [i \in 1..Len(name) |-> IF SanitizeOk(name[i]) THEN name[i] ELSE "_"]
            ELSE DropChars(name, {name[i] : i \in {j \in 1..Len(name) : ~SanitizeOk(name[j])}})
    IN Strip(CollapseSpaces(cleaned))

\* split_name_ext(name) -> <<stem, ext>>
\* a variant that takes the extension from the first dot on
SplitAtFirstDot(name) ==
    IF \A i \in 1..Len(name) : name[i] # "." THEN <<name, <<>>>>
    ELSE LET idx == CHOOSE i \in 1..Len(name) :
                        name[i] = "." /\ \A j \in 1..(i - 1) : name[j] # "."
         IN IF idx = 1 THEN <<name, <<>>>> ELSE <<Upto(name, idx - 1), From(name, idx)>>

split_name_ext(name) ==
    IF StartsWith(name, <<".">>) /\ CountDots(name) = 1 THEN <<name, <<>>>>
    ELSE LET idx == RFindDot(name)
         IN IF idx <= 0 THEN <<name, <<>>>>
            ELSE <<Upto(name, idx), From(name, idx)>>

\* re.split(r"(\s+|-)", text): tokens and separators alternate, separators kept
RECURSIVE SplitFrom(_, _, _)
SplitFrom(s, at, cur) ==
    IF at > Len(s) THEN <<cur>>
    ELSE IF IsSpace(s[at])
    THEN LET rest == LStrip(From(s, at - 1))
             end  == Len(s) - Len(rest)
         IN <<cur, SubSeq(s, at, end)>> \o SplitFrom(s, end + 1, <<>>)
    ELSE IF s[at] = "-" THEN <<cur, <<"-">>>> \o SplitFrom(s, at + 1, <<>>)
    ELSE SplitFrom(s, at + 1, Append(cur, s[at]))

SplitWords(text) == SplitFrom(text, 1, <<>>)

\* t.isspace(): non-empty and all whitespace
AllSpace(t) == t # <<>> /\ \A i \in 1..Len(t) : IsSpace(t[i])

IsWordPart(t) == t # <<>> /\ ~AllSpace(t) /\ t # <<"-">>

\* re.sub(r"[^\w]", "", tok).upper()
Bare(tok) == Upper(DropChars(tok, {tok[i] : i \in {j \in 1..Len(tok) : ~(IsAlnum(tok[j]) \/ tok[j] = "_")}}))

\* smart_title_case.norm(tok, pos); pos and last are Python's 0-based indices
SmartNorm(tok, pos, last) ==
    IF ~IsWordPart(tok) THEN tok
    ELSE IF Bare(tok) \in ACRONYMS THEN Bare(tok)
    ELSE IF 0 < pos /\ pos < last /\ Lower(tok) \in SMALL_WORDS THEN Lower(tok)
    ELSE Capitalize(Lower(tok))

RECURSIVE Concat(_)
Concat(parts) == IF parts = <<>> THEN <<>> ELSE Head(parts) \o Concat(Tail(parts))

\* last: the 0-based index of the last word part, -1 when there is none
LastWord(parts) ==
    IF \A i \in 1..Len(parts) : ~IsWordPart(parts[i]) THEN 0 - 1
    ELSE (CHOOSE i \in 1..Len(parts) :
            IsWordPart(parts[i]) /\ \A j \in (i + 1)..Len(parts) : ~IsWordPart(parts[j])) - 1

NormParts(parts, last) == Concat([i \in 1..Len(parts) |-> SmartNorm(parts[i], i - 1, last)])

JoinSmart(parts) == NormParts(parts, LastWord(parts))

smart_title_case(text) == JoinSmart(SplitWords(text))

\* str.title(): a letter is upper-cased unless the character before it is a letter
TitleCase(s) ==
    [i \in 1..Len(s) |->
        IF ~IsAlpha(s[i]) THEN s[i]
        ELSE IF i > 1 /\ IsAlpha(s[i - 1]) THEN LowerCh(s[i]) ELSE UpperCh(s[i])]

\* the casing step of normalize_stem
ApplyCase(s, case_mode) ==
    CASE case_mode = "keep"  -> s
      [] case_mode = "lower" -> Lower(s)
      [] case_mode = "upper" -> Upper(s)
      [] case_mode = "title" -> TitleCase(s)
      [] OTHER               -> smart_title_case(s)

ReplaceIf(cond, s, a, b) == IF cond THEN Replace(s, a, b) ELSE s
DropIf(cond, s, bad) == IF cond THEN DropChars(s, bad) ELSE s

\* normalize_stem; NFKC normalisation leaves the ASCII alphabet of the model unchanged
normalize_stem(stem, case_mode, drop_symbols, convert_underscores, convert_dashes) ==
    ApplyCase(
        Strip(CollapseSpaces(
            DropIf(drop_symbols,
                   ReplaceIf(convert_dashes,
                             ReplaceIf(convert_underscores, stem, <<"_">>, <<" ">>),
                             <<"-">>, <<" ">>),
                   SYMBOLS))),
        case_mode)

\* ------------------------------------------------------------------------
\* pathlib: a path is a non-empty sequence of names, the root directory first
\* ------------------------------------------------------------------------

\* PurePath.suffix and PurePath.stem of a final component
HasSuffix(name) == LET i == RFindDot(name) IN 0 < i /\ i < Len(name) - 1
PathSuffix(name) == IF HasSuffix(name) THEN From(name, RFindDot(name)) ELSE <<>>
PathStem(name) == IF HasSuffix(name) THEN Upto(name, RFindDot(name)) ELSE name

\* p.name, p.parent, p.parent.name, p.with_name(n)
PName(p) == p[Len(p)]
PParent(p) == Upto(p, Len(p) - 1)
ParentName(p) == IF Len(p) > 1 THEN p[Len(p) - 1] ELSE <<>>
WithName(p, n) == Append(PParent(p), n)

\* ------------------------------------------------------------------------
\* syncstage/commands/rename.py: template rendering
\* ------------------------------------------------------------------------

TwoDigits(n) == ZFill(Str(n), 2)

\* datetime.strftime for the directives %Y %m %d %H %M %S %%; any other
\* character pair is copied
RECURSIVE Strftime(_, _)
Strftime(d, fmt) ==
    IF fmt = <<>> THEN <<>>
    ELSE IF Head(fmt) = "%" /\ Len(fmt) >= 2
    THEN (CASE fmt[2] = "Y" -> Str(d.Y)
            [] fmt[2] = "m" -> TwoDigits(d.m)
            [] fmt[2] = "d" -> TwoDigits(d.d)
            [] fmt[2] = "H" -> TwoDigits(d.H)
            [] fmt[2] = "M" -> TwoDigits(d.M)
            [] fmt[2] = "S" -> TwoDigits(d.S)
            [] fmt[2] = "%" -> <<"%">>
            [] OTHER        -> <<"%", fmt[2]>>) \o Strftime(d, From(fmt, 2))
    ELSE <<Head(fmt)>> \o Strftime(d, Tail(fmt))

TokCreated  == <<"{","c","r","e","a","t","e","d">>
TokModified == <<"{","m","o","d","i","f","i","e","d">>
TokStem     == <<"{","s","t","e","m","}">>
TokExt      == <<"{","e","x","t","}">>
TokParent   == <<"{","p","a","r","e","n","t","}">>
TokCounter  == <<"{","c","o","u","n","t","e","r","}">>
DefaultDateFmt == <<"%","Y","-","%","m","-","%","d">>

\* A match of \{(created|modified)(?::(%[^}]+))?\} at position at of s is
\* described by [len, fmt]; len = 0 when there is none
NoMatch == [len |-> 0, fmt |-> <<>>]

FirstClose(s, from) ==
    IF \A k \in from..Len(s) : s[k] # "}" THEN 0
    ELSE CHOOSE k \in from..Len(s) : s[k] = "}" /\ \A j \in from..(k - 1) : s[j] # "}"

\* the rest of the pattern after {created or {modified; after is the position
\* behind the token name and close the position of the first } behind after
DateTail(s, at, after, close) ==
    IF after > Len(s) THEN NoMatch
    ELSE IF s[after] = "}" THEN [len |-> after - at + 1, fmt |-> <<>>]
    ELSE IF /\ s[after] = ":"
            /\ after + 1 <= Len(s)
            /\ s[after + 1] = "%"
            /\ close >= after + 3
    THEN [len |-> close - at + 1, fmt |-> SubSeq(s, after + 1, close - 1)]
    ELSE NoMatch

DateMatchOf(s, at, tok) ==
    IF HasAt(s, tok, at) THEN DateTail(s, at, at + Len(tok), FirstClose(s, at + Len(tok) + 1))
    ELSE NoMatch

SubDate(m, base) == Strftime(base, IF m.fmt = <<>> THEN DefaultDateFmt ELSE m.fmt)

\* re.sub(<the date pattern>, sub_date, s)
RECURSIVE SubDates(_, _, _, _)

SubDatesAt(s, at, mc, mm, created_dt, modified_dt) ==
    IF mc.len > 0 THEN SubDate(mc, created_dt) \o SubDates(s, at + mc.len, created_dt, modified_dt)
    ELSE IF mm.len > 0
    THEN SubDate(mm, modified_dt) \o SubDates(s, at + mm.len, created_dt, modified_dt)
    ELSE <<s[at]>> \o SubDates(s, at + 1, created_dt, modified_dt)

SubDates(s, at, created_dt, modified_dt) ==
    IF at > Len(s) THEN <<>>
    ELSE SubDatesAt(s, at, DateMatchOf(s, at, TokCreated), DateMatchOf(s, at, TokModified),
                    created_dt, modified_dt)

\* _format_with_dates(p, template, created_dt, modified_dt); no caller passes counter
format_with_dates(p, template, created_dt, modified_dt) ==
    Replace(
        Replace(
            Replace(
                Replace(SubDates(template, 1, created_dt, modified_dt),
                        TokStem, PathStem(PName(p))),
                TokExt, PathSuffix(PName(p))),
            TokParent, ParentName(p)),
        TokCounter, <<"1">>)

\* the length of the run of digits s starts with
RECURSIVE DigitRun(_)
DigitRun(s) == IF s # <<>> /\ IsDigit(Head(s)) THEN 1 + DigitRun(Tail(s)) ELSE 0

\* re.sub(pat, repl, s) for the one pattern of the model, \d+
RECURSIVE SubDigits(_, _)
SubDigits(s, repl) ==
    IF s = <<>> THEN <<>>
    ELSE IF IsDigit(Head(s)) THEN repl \o SubDigits(From(s, DigitRun(s)), repl)
    ELSE <<Head(s)>> \o SubDigits(Tail(s), repl)

RECURSIVE ApplyLiteral(_, _)
ApplyLiteral(s, subs) ==
    IF subs = <<>> THEN s ELSE ApplyLiteral(Replace(s, Head(subs)[1], Head(subs)[2]), Tail(subs))

RECURSIVE ApplyRegex(_, _)
ApplyRegex(s, resubs) ==
    IF resubs = <<>> THEN s ELSE ApplyRegex(SubDigits(s, Head(resubs)[2]), Tail(resubs))

\* _apply_substitutions(name, subs, resubs); every pair of resubs has the pattern \d+
apply_substitutions(name, subs, resubs) == ApplyRegex(ApplyLiteral(name, subs), resubs)

\* ------------------------------------------------------------------------
\* The file system the command works on (os / pathlib, POSIX semantics).
\* fs is a sequence of entries; an entry's index is its identity.  An entry
\* records its parent directory (0 for the top of the volume), its name, its
\* kind ("file", "dir" or "link") and, for a symbolic link, the sibling name
\* it points to.  An entry that a rename replaced is no longer live.
\* ------------------------------------------------------------------------

None == 0 - 1

LiveIds(f) == {i \in DOMAIN f : f[i].live}

\* the entry called n in directory d
Child(f, d, n) ==
    LET c == {i \in LiveIds(f) : f[i].par = d /\ f[i].name = n}
    IN IF n = <<".", ".">> THEN (IF d = 0 THEN 0 ELSE f[d].par)
       ELSE IF c = {} THEN None ELSE CHOOSE i \in c : TRUE

\* follow symbolic links from entry i; None for a dangling link or a loop
RECURSIVE Deref(_, _, _)
Deref(f, i, fuel) ==
    IF i = None THEN None
    ELSE IF i = 0 THEN 0
    ELSE IF f[i].kind # "link" THEN i
    ELSE IF fuel = 0 THEN None
    ELSE Deref(f, Child(f, f[i].par, f[i].tgt), fuel - 1)

Follow(f, i) == Deref(f, i, Len(f))

\* the entry a path names, its last component not followed (os.lstat)
RECURSIVE WalkPath(_, _, _)

WalkInto(f, c, dd, path) ==
    IF c = None THEN None
    ELSE IF Len(path) = 1 THEN c
    ELSE IF dd = None THEN None
    ELSE IF dd # 0 /\ f[dd].kind # "dir" THEN None
    ELSE WalkPath(f, dd, Tail(path))

WalkPath(f, d, path) ==
    IF path = <<>> THEN d
    ELSE WalkInto(f, Child(f, d, Head(path)), Follow(f, Child(f, d, Head(path))), path)

LStat(f, path) == WalkPath(f, 0, path)

\* os.stat: the last component followed too
Stat(f, path) == Follow(f, LStat(f, path))

KindOf(f, i) == IF i = None THEN "none" ELSE IF i = 0 THEN "dir" ELSE f[i].kind

\* Path.exists(), Path.is_symlink(), Path.is_dir()
Exists(f, path) == Stat(f, path) # None
IsSymlink(f, path) == KindOf(f, LStat(f, path)) = "link"
IsDir(f, path) == KindOf(f, Stat(f, path)) = "dir"

\* target.resolve() != p.resolve(), for a p and a target that exist: the
\* resolved path of an existing entry determines the entry (no hard links)
ResolvesElsewhere(f, target, p) == Stat(f, target) # Stat(f, p)

\* the path of a live entry
RECURSIVE PathOf(_, _)
PathOf(f, i) == IF i = 0 THEN <<>> ELSE Append(PathOf(f, f[i].par), f[i].name)

HasChildren(f, d) == \E i \in LiveIds(f) : f[i].par = d

\* the directory entry of the last component of dst: 0 at the top of the volume
ParentDir(f, dst) == IF Len(dst) = 1 THEN 0 ELSE Stat(f, PParent(dst))

\* rename(2) of entry s onto the name of entry d (None when the name is free)
\* in directory dp (None when there is no such directory) is accepted
RenameAccepted(f, s, dp, d) ==
    /\ s # None
    /\ dp # None
    /\ dp = 0 \/ f[dp].kind = "dir"
    /\ \/ d = None
       \/ d = s
       \/ f[s].kind = "dir" /\ f[d].kind = "dir" /\ ~HasChildren(f, d)
       \/ f[s].kind # "dir" /\ f[d].kind # "dir"

\* os.rename(src, dst) succeeds: the source exists, the target's directory
\* exists, and a target that exists can be replaced by the source
RenameOk(f, src, dst) == RenameAccepted(f, LStat(f, src), ParentDir(f, dst), LStat(f, dst))

\* entry s takes name n in directory dp; the entry d it replaces is gone
Moved(f, s, dp, d, n) ==
    IF d = s THEN f
    ELSE [i \in DOMAIN f |->
            IF i = s THEN [f[i] EXCEPT !.par = dp, !.name = n]
            ELSE IF i = d THEN [f[i] EXCEPT !.live = FALSE]
            ELSE f[i]]

\* the file system after a successful os.rename(src, dst)
RenameFs(f, src, dst) == Moved(f, LStat(f, src), ParentDir(f, dst), LStat(f, dst), PName(dst))

\* a set of entry ids as a sequence, in the order the directory enumerates them
RECURSIVE SortIds(_, _)
SortIds(S, order) ==
    IF S = {} THEN <<>>
    ELSE LET x == IF order = "asc" THEN CHOOSE i \in S : \A j \in S : i <= j
                  ELSE CHOOSE i \in S : \A j \in S : i >= j
         IN <<x>> \o SortIds(S \ {x}, order)

\* DirEntry.is_dir() of entry i, links followed
EntryIsDir(f, i) == KindOf(f, Follow(f, i)) = "dir"

\* os.scandir(d) as os.walk classifies it: the directories, and the rest
ScanDirs(f, d, order) ==
    SortIds({i \in LiveIds(f) : f[i].par = d /\ EntryIsDir(f, i)}, order)
ScanNonDirs(f, d, order) ==
    SortIds({i \in LiveIds(f) : f[i].par = d /\ ~EntryIsDir(f, i)}, order)

\* ------------------------------------------------------------------------
\* syncstage/fs.py
\* ------------------------------------------------------------------------

\* iter_files(root, ignore) below directory d (whose path is path), with an
\* ignore list that matches none of the model's names: the regular files of
\* the tree, each directory's own files before those of its subdirectories;
\* symbolic links are neither yielded nor descended into
RECURSIVE IterFiles(_, _, _, _)

FilesThenDirs(f, path, order, files, walked) ==
    [k \in 1..Len(files) |-> Append(path, f[files[k]].name)]
    \o Concat([k \in 1..Len(walked) |->
                 IterFiles(f, walked[k], Append(path, f[walked[k]].name), order)])

NotLink(f, ids) == SelectSeq(ids, LAMBDA i : f[i].kind # "link")

IterFiles(f, d, path, order) ==
    FilesThenDirs(f, path, order,
                  NotLink(f, ScanNonDirs(f, d, order)), NotLink(f, ScanDirs(f, d, order)))

iter_files(f, root, order) ==
    IF IsDir(f, root) THEN IterFiles(f, Stat(f, root), root, order) ELSE <<>>

\* ------------------------------------------------------------------------
\* syncstage/commands/rename.py: the name pipeline of _process_items
\* ------------------------------------------------------------------------

\* the bound on the iterations of a collision loop that the model follows
MaxCounter == 6

\* a variant that appends the suffix when keep_ext is set
BaseNameOnKeepExt(a, p, template, created_dt, modified_dt) ==
    format_with_dates(p, template, created_dt, modified_dt)
    \o (IF a.keep_ext /\ ~Contains(a.template, TokExt) THEN PathSuffix(PName(p)) ELSE <<>>)

\* base_name: the rendered template, the original suffix appended when the
\* template has no {ext} and keep_ext is not set
BaseName(a, p, template, created_dt, modified_dt) ==
    format_with_dates(p, template, created_dt, modified_dt)
    \o (IF ~a.keep_ext /\ ~Contains(a.template, TokExt) THEN PathSuffix(PName(p)) ELSE <<>>)

Normalized(a, stem) ==
    normalize_stem(stem, a.case_mode, ~a.keep_symbols, ~a.keep_underscores, a.convert_dashes)

\* a variant that forgets the extension case option
WithExtCaseKept(a, stem_part, ext_part) == stem_part \o ext_part

\* extension case handling when the name is reassembled
WithExtCase(a, stem_part, ext_part) ==
    IF ext_part # <<>> /\ a.ext_case # "keep"
    THEN stem_part \o (IF a.ext_case = "lower" THEN Lower(ext_part) ELSE Upper(ext_part))
    ELSE stem_part \o ext_part

Sanitized(a, name) == IF ~a.no_sanitize THEN sanitize_filename(name, a.sanitize_mode) ELSE name

\* ---- syncstage/translate.py ----
\* A cache file is [kind, hit]: kind is "absent" (no path, or no file),
\* "unreadable", "invalid" (no JSON), or the type of the JSON value it holds:
\* "object", "list", "string", "number", "null"; hit tells whether the
\* expression key in cache is true of the value for the key looked up.
NoCache == [kind |-> "absent", hit |-> FALSE]

\* the value load_cache returns
load_cache(cache) ==
    IF cache.kind \in {"absent", "unreadable", "invalid"} THEN [kind |-> "object", hit |-> FALSE]
    ELSE cache

\* the string an object cache holds for a key it has
CachedOut == <<"o","l","d">>

\* what the translator of a provider that works returns for text
ProviderOut(text) == IF Strip(text) = <<>> THEN text ELSE <<"e","n"," ">> \o text

\* get_translator(provider).translate(text): the provider is "works", "fails"
\* (not installed, or every call raises) or "flaky" (raises for the text a)
Provide(provider, text) ==
    IF provider = "fails" \/ (provider = "flaky" /\ text = <<"a">>)
    THEN [raised |-> "RuntimeError", out |-> <<>>]
    ELSE [raised |-> "none", out |-> ProviderOut(text)]

TypeError == [raised |-> "TypeError", out |-> <<>>]

\* The translate method of a provider, called with text while the service
\* behind it fails as fails tells: fails[k] is TRUE when the k-th request
\* raises. The outcome counts the requests made and lists the sleeps between
\* them, in half seconds.
RetryLoop == 3

Returned(text, n, delays) ==
    [raised |-> FALSE, out |-> ProviderOut(text), attempts |-> n, delays |-> delays]

RaisedAfter(n, delays) == [raised |-> TRUE, out |-> <<>>, attempts |-> n, delays |-> delays]

\* GoogleTransTranslator.translate from iteration i of range(3) on
RECURSIVE GoogleTry(_, _, _, _)
GoogleTry(text, fails, i, delays) ==
    IF i = RetryLoop
    THEN (IF fails[i + 1] THEN RaisedAfter(i + 1, delays) ELSE Returned(text, i + 1, delays))
    ELSE IF ~fails[i + 1] THEN Returned(text, i + 1, delays)
    ELSE GoogleTry(text, fails, i + 1, Append(delays, i + 1))

GoogleTranslate(text, fails) ==
    IF Strip(text) = <<>> THEN [raised |-> FALSE, out |-> text, attempts |-> 0, delays |-> <<>>]
    ELSE GoogleTry(text, fails, 0, <<>>)

\* GCloudTranslator.translate
GCloudTranslate(text, fails) ==
    IF Strip(text) = <<>> THEN [raised |-> FALSE, out |-> text, attempts |-> 0, delays |-> <<>>]
    ELSE IF fails[1] THEN RaisedAfter(1, <<>>)
    ELSE Returned(text, 1, <<>>)

Translate(provider, text, fails) ==
    IF provider = "gcloud" THEN GCloudTranslate(text, fails) ELSE GoogleTranslate(text, fails)

\* translate_cached from the test key in cache on, c the loaded cache and t
\* the outcome of the provider's call (made only when the key is not found)
CacheLookup(c, t) ==
    IF c.kind \in {"number", "null"} THEN TypeError
    ELSE IF c.hit THEN (IF c.kind = "object" THEN [raised |-> "none", out |-> CachedOut]
                        ELSE TypeError)
    ELSE IF t.raised # "none" THEN t
    ELSE IF c.kind = "object" THEN t
    ELSE TypeError

translate_cached(text, provider, cache) == CacheLookup(load_cache(cache), Provide(provider, text))

\* a variant that lets a failed translation empty the stem
StemOrNothing(stem, r) == r.out

\* the stem after the try block around the translation call
StemOr(stem, r) == IF r.raised = "none" THEN r.out ELSE stem

\* stem_part after the optional translation: module_ok tells whether the
\* import of translate_cached succeeded
TranslatedStem(a, stem) ==
    IF a.translate_mode = "th-en" /\ a.module_ok
    THEN StemOr(stem, translate_cached(stem, a.provider, a.cache))
    ELSE stem

TranslatedParts(a, parts) == <<TranslatedStem(a, parts[1]), parts[2]>>

\* the first name from the split base name: normalize, extension case,
\* substitutions, sanitize
NameOfParts(a, parts) ==
    Sanitized(a, apply_substitutions(WithExtCase(a, Normalized(a, parts[1]), parts[2]),
                                     a.subs, a.resubs))

\* new_name of candidate p
NewName(a, p, created_dt, modified_dt) ==
    NameOfParts(a, TranslatedParts(a, split_name_ext(BaseName(a, p, a.template, created_dt, modified_dt))))

\* a retried name from the split re-rendered name: the extension case is not applied
RetryOfParts(a, parts) ==
    Sanitized(a, apply_substitutions(Normalized(a, parts[1]) \o parts[2], a.subs, a.resubs))

\* a variant whose suffix without {counter} is one ahead of the counter
RetryNameAhead(a, p, new_name, counter, created_dt, modified_dt) ==
    IF Contains(a.template, TokCounter)
    THEN RetryOfParts(a, split_name_ext(
             BaseName(a, p, Replace(a.template, TokCounter, ZFill(Str(counter), a.pad)),
                      created_dt, modified_dt)))
    ELSE PathStem(new_name) \o <<" ">> \o ZFill(Str(counter + 1), a.pad) \o PathSuffix(new_name)

\* the name tried for counter in the collision loop
RetryName(a, p, new_name, counter, created_dt, modified_dt) ==
    IF Contains(a.template, TokCounter)
    THEN RetryOfParts(a, split_name_ext(
             BaseName(a, p, Replace(a.template, TokCounter, ZFill(Str(counter), a.pad)),
                      created_dt, modified_dt)))
    ELSE PathStem(new_name) \o <<" ">> \o ZFill(Str(counter), a.pad) \o PathSuffix(new_name)

\* the compiled idempotency pattern of run: "date" for the built-in preset,
\* "none" when there is none (not configured, or it failed to compile)
\* idempotent_prefix is "none" (None), "true" (True, the built-in preset) or
\* the text of a pattern: "A" (names that begin with A), "(" (does not
\* compile) or "" (empty).
ValidPatterns == {"A"}

\* a variant in which a pattern that does not compile switches rule 3 off too
PrefixReOrNever(a) ==
    IF ~a.skip_if_already \/ a.idempotent_prefix \in {"none", ""} THEN "none"
    ELSE IF a.idempotent_prefix = "true" THEN "date"
    ELSE IF a.idempotent_prefix \in ValidPatterns THEN a.idempotent_prefix
    ELSE "never"

PrefixRe(a) ==
    IF ~a.skip_if_already THEN "none"
    ELSE IF a.idempotent_prefix = "true" THEN "date"
    ELSE IF a.idempotent_prefix \in ValidPatterns THEN a.idempotent_prefix
    ELSE "none"

IsSep(c) == c \in {" ", "_", "-"}

AllDigits(s, from, to) == \A i \in from..to : IsDigit(s[i])

\* re.match(r"^(?:\d{8}|\d{4}-\d{2}-\d{2})[ _-]", name)
MatchDatePrefix(name) ==
    \/ Len(name) >= 9 /\ AllDigits(name, 1, 8) /\ IsSep(name[9])
    \/ /\ Len(name) >= 11
       /\ AllDigits(name, 1, 4) /\ name[5] = "-" /\ AllDigits(name, 6, 7)
       /\ name[8] = "-" /\ AllDigits(name, 9, 10) /\ IsSep(name[11])

\* prefix_re.match(name) for a compiled pattern
PrefixMatches(re, name) ==
    CASE re = "date" -> MatchDatePrefix(name)
      [] re = "A"    -> StartsWith(name, <<"A">>)
      [] OTHER       -> FALSE

\* the position of the first separator of s, 0 when there is none
FirstSep(s) ==
    IF \A i \in 1..Len(s) : ~IsSep(s[i]) THEN 0
    ELSE CHOOSE i \in 1..Len(s) : IsSep(s[i]) /\ \A j \in 1..(i - 1) : ~IsSep(s[j])

\* group 1 of re.match(r"^([^\s_\-]+)[\s_\-]+", new_name); <<>> when no match
IntendedPrefix(new_name) ==
    IF FirstSep(new_name) <= 1 THEN <<>> ELSE Upto(new_name, FirstSep(new_name) - 1)

\* the idempotency guard: the candidate is left alone
SkipIfAlready(a, name, new_name) ==
    /\ a.skip_if_already
    /\ \/ name = new_name
       \/ PrefixRe(a) # "none" /\ PrefixMatches(PrefixRe(a), name)
       \/ /\ PrefixRe(a) = "none"
          /\ IntendedPrefix(new_name) # <<>>
          /\ \E c \in {" ", "_", "-"} : StartsWith(name, Append(IntendedPrefix(new_name), c))

\* the condition of the collision loops
Collides(f, target, p) == Exists(f, target) /\ ResolvesElsewhere(f, target, p)

\* the collision loop of _process_items from counter on: the target it ends
\* with, or spin when it is still colliding after MaxCounter
RECURSIVE ResolveTarget(_, _, _, _, _, _)

\* the names for which Path.with_name raises ValueError
RejectedByWithName(name) == name \in {<<>>, <<".">>} \/ "/" \in Range(name)

\* the body of the collision loop once the name for counter is computed
Retried(f, a, p, new_name, name, counter) ==
    IF RejectedByWithName(name) THEN [spin |-> FALSE, raised |-> TRUE, target |-> p]
    ELSE ResolveTarget(f, a, p, new_name, WithName(p, name), counter + 1)

ResolveTarget(f, a, p, new_name, target, counter) ==
    IF ~Collides(f, target, p) THEN [spin |-> FALSE, raised |-> FALSE, target |-> target]
    ELSE IF counter > MaxCounter THEN [spin |-> TRUE, raised |-> FALSE, target |-> target]
    ELSE Retried(f, a, p, new_name,
                 RetryName(a, p, new_name, counter, f[Stat(f, p)].created, f[Stat(f, p)].modified),
                 counter)

\* after the collision loop: nothing to do when the target is the current name
AfterLoop(p, r) ==
    IF r.raised THEN [kind |-> "raise", target |-> p]
    ELSE IF r.spin THEN [kind |-> "spin", target |-> r.target]
    ELSE IF PName(p) = PName(r.target) THEN [kind |-> "skip", target |-> p]
    ELSE [kind |-> "plan", target |-> r.target]

\* from the computed name on: the invalid names, the idempotency guard, the loop
DecideName(f, a, p, new_name) ==
    IF new_name \in {<<>>, <<".">>, <<".", ".">>} THEN [kind |-> "skip", target |-> p]
    ELSE IF SkipIfAlready(a, PName(p), new_name) THEN [kind |-> "skip", target |-> p]
    ELSE IF RejectedByWithName(new_name) THEN [kind |-> "raise", target |-> p]
    ELSE AfterLoop(p, ResolveTarget(f, a, p, new_name, WithName(p, new_name), 2))

\* what the body of _process_items' loop decides for candidate p:
\* "skip", "spin" (the collision loop does not end) or "plan" with the target
Decide(f, a, p) ==
    IF IsSymlink(f, p) \/ ~Exists(f, p) THEN [kind |-> "skip", target |-> p]
    ELSE DecideName(f, a, p, NewName(a, p, f[Stat(f, p)].created, f[Stat(f, p)].modified))

\* the name tried next in the collision loop of the plan replay
ReplayRetryName(name, counter_n, pad) ==
    PathStem(name) \o <<" ">> \o ZFill(Str(counter_n), pad) \o PathSuffix(name)

RECURSIVE ReplayTarget(_, _, _, _, _)
ReplayTarget(f, old_path, target, counter_n, pad) ==
    IF ~Collides(f, target, old_path) THEN [spin |-> FALSE, raised |-> FALSE, target |-> target]
    ELSE IF counter_n > MaxCounter THEN [spin |-> TRUE, raised |-> FALSE, target |-> target]
    ELSE ReplayTarget(f, old_path,
                      WithName(target, ReplayRetryName(PName(target), counter_n, pad)),
                      counter_n + 1, pad)

\* what the body of the replay loop decides for the plan row <<old_path, new_name>>
DecideReplay(f, a, row) ==
    IF ~Exists(f, row[1]) THEN [kind |-> "skip", target |-> row[1]]
    ELSE AfterLoop(row[1], ReplayTarget(f, row[1], WithName(row[1], row[2]), 2, a.pad))

\* renames are issued only when the run is not a dry run
Applies(a) == a.apply

\* a variant that reads the rows whatever the header row is
ReadPlanUnchecked(head, rows) == [raised |-> "none", rows |-> rows]

\* _read_plan_csv of a file whose header row is head (has is FALSE for a file
\* without a first row, for which DictReader.fieldnames is None) and whose
\* rows, read by column name, are rows
read_plan_csv(head, rows) ==
    IF ~head.has THEN [raised |-> "TypeError", rows |-> <<>>]
    ELSE IF "old_path" \notin Range(head.cols) \/ "new_name" \notin Range(head.cols)
    THEN [raised |-> "ValueError", rows |-> <<>>]
    ELSE [raised |-> "none", rows |-> rows]

\* ------------------------------------------------------------------------
\* The inputs of the model: names, directories, arguments and plans
\* ------------------------------------------------------------------------

\* docs
Docs == <<"d","o","c","s">>
\* a.txt
N_a == <<"a",".","t","x","t">>
\* a_.txt
N_au == <<"a","_",".","t","x","t">>
\* A.txt
N_A == <<"A",".","t","x","t">>
\* A 02.txt
N_A02 == <<"A"," ","0","2",".","t","x","t">>
\* sub
N_sub == <<"s","u","b">>
\* my_file "draft"?.TXT
N_my == <<"m","y","_","f","i","l","e"," ","\"","d","r","a","f","t","\"","?",".","T","X","T">>
\* zz
N_zz == <<"z","z">>
\* b.txt
N_b == <<"b",".","t","x","t">>
\* box
N_box == <<"b","o","x">>

\* {stem}{ext}
T_stem_ext == <<"{","s","t","e","m","}","{","e","x","t","}">>
\* {modified:%Y-%m-%d} {stem}{ext}
T_date == <<"{","m","o","d","i","f","i","e","d",":","%","Y","-","%","m","-","%","d","}"," ","{","s","t","e","m","}","{","e","x","t","}">>
\* {stem} {counter}{ext}
T_counter == <<"{","s","t","e","m","}"," ","{","c","o","u","n","t","e","r","}","{","e","x","t","}">>
\* {stem}{counter}{ext}
T_tight == <<"{","s","t","e","m","}","{","c","o","u","n","t","e","r","}","{","e","x","t","}">>

\* the time stamp of the test fixture fixed_time (2024-03-05 12:34:56) and an earlier one
FixedTime == [Y |-> 2024, m |-> 3, d |-> 5, H |-> 12, M |-> 34, S |-> 56]
OlderTime == [Y |-> 2023, m |-> 12, d |-> 31, H |-> 1, M |-> 2, S |-> 3]

Entry(par, name, kind, tgt) ==
    [live |-> TRUE, par |-> par, name |-> name, kind |-> kind, tgt |-> tgt,
     created |-> OlderTime, modified |-> FixedTime]

\* the most entries below the root directory of an initial file system
MaxEntries == 3

InSub == 0 - 2

\* What an initial directory may hold under each of its names: nothing, or
\* the listed entries (par 1 is the root directory, InSub the directory sub)
Slots == <<
    {<<>>, <<Entry(1, N_a, "file", <<>>)>>},
    {<<>>, <<Entry(1, N_au, "file", <<>>)>>},
    {<<>>, <<Entry(1, N_A, "file", <<>>)>>, <<Entry(1, N_A, "link", N_zz)>>,
           <<Entry(1, N_A, "link", N_a)>>},
    {<<>>, <<Entry(1, N_A02, "file", <<>>)>>, <<Entry(1, N_A02, "link", N_zz)>>},
    {<<>>, <<Entry(1, N_sub, "dir", <<>>)>>,
           <<Entry(1, N_sub, "dir", <<>>), Entry(InSub, N_a, "file", <<>>)>>},
    {<<>>, <<Entry(1, N_my, "file", <<>>)>>} >>

\* an initial file system: the root directory, then the chosen entries
Assemble(choice) ==
    LET raw == <<Entry(0, Docs, "dir", <<>>)>> \o choice
        sub == CHOOSE i \in 1..Len(raw) : raw[i].name = N_sub
    IN [i \in 1..Len(raw) |-> IF raw[i].par = InSub THEN [raw[i] EXCEPT !.par = sub] ELSE raw[i]]

\* the entries of one alternative per slot, for the first k slots
RECURSIVE DirChoices(_)
DirChoices(k) ==
    IF k = 0 THEN {<<>>}
    ELSE {c \o x : c \in DirChoices(k - 1), x \in {y \in Slots[k] : TRUE}}

InitialDirs ==
    {Assemble(c) : c \in {x \in DirChoices(Len(Slots)) : Len(x) \in 1..MaxEntries}}

BaseArgs ==
    [roots |-> << <<Docs>> >>, template |-> T_stem_ext, pad |-> 2, apply |-> FALSE,
     include_dirs |-> FALSE, no_sanitize |-> FALSE, keep_ext |-> FALSE,
     case_mode |-> "smart", ext_case |-> "keep", keep_symbols |-> FALSE,
     keep_underscores |-> FALSE, convert_dashes |-> FALSE, sanitize_mode |-> "drop",
     skip_if_already |-> TRUE, idempotent_prefix |-> "none",
     subs |-> <<>>, resubs |-> <<>>, plan_in |-> FALSE, plan |-> <<>>,
     plan_head |-> [has |-> TRUE, cols |-> <<"old_path", "new_name">>],
      translate_mode |-> "none", module_ok |-> TRUE, provider |-> "works", cache |-> NoCache]

\* the naming profiles of the forward flow
Profiles ==
    { BaseArgs,
      [BaseArgs EXCEPT !.template = T_date, !.ext_case = "lower"],
      [BaseArgs EXCEPT !.template = T_counter],
      [BaseArgs EXCEPT !.template = T_counter, !.resubs = << <<"digits", <<>>>> >>],
      [BaseArgs EXCEPT !.template = T_tight] }

ForwardArgs ==
    { [a EXCEPT !.apply = ap, !.include_dirs = dirs,
                !.skip_if_already = g[1], !.idempotent_prefix = g[2]] :
        a \in Profiles, ap \in BOOLEAN, dirs \in BOOLEAN,
        g \in {<<TRUE, "none">>, <<TRUE, "true">>, <<FALSE, "none">>} }

\* the rows a plan file may hold: <<old_path, new_name>>
PlanRows ==
    { << <<Docs, N_a>>, N_A >>,
      << <<Docs, N_au>>, N_A >>,
      << <<Docs, N_A>>, N_b >>,
      << <<Docs, N_sub>>, N_box >>,
      << <<Docs, N_sub, N_a>>, N_A >> }

\* the most rows of a plan file
MaxPlan == 2

RECURSIVE SeqsUpTo(_, _)
SeqsUpTo(S, n) ==
    IF n = 0 THEN {<<>>}
    ELSE LET shorter == SeqsUpTo(S, n - 1)
         IN shorter \cup {Append(q, x) : q \in shorter, x \in S}

IsInjective(q) == \A i, j \in DOMAIN q : q[i] = q[j] => i = j

Plans == {q \in SeqsUpTo(PlanRows, MaxPlan) : q # <<>> /\ IsInjective(q)}

ReplayArgs ==
    { [BaseArgs EXCEPT !.plan_in = TRUE, !.plan = q, !.apply = ap] :
        q \in Plans, ap \in BOOLEAN }

\* the header rows of a plan file: none at all (an empty file), a column
\* missing, other columns, the columns in the other order, a column more
PlanHeads ==
    { [has |-> FALSE, cols |-> <<>>],
      [has |-> TRUE, cols |-> <<"old_path">>],
      [has |-> TRUE, cols |-> <<"new_name">>],
      [has |-> TRUE, cols |-> <<"path", "name">>],
      [has |-> TRUE, cols |-> <<"new_name", "old_path">>],
      [has |-> TRUE, cols |-> <<"old_path", "new_name", "note">>] }

\* replays of a one-row plan file under each of these header rows
HeaderArgs ==
    { [BaseArgs EXCEPT !.plan_in = TRUE, !.plan = <<row>>, !.apply = ap, !.plan_head = h] :
        row \in {r \in PlanRows : r[1] = <<Docs, N_a>>}, ap \in BOOLEAN, h \in PlanHeads }

\* Sub
N_Sub == <<"S","u","b">>

\* a file system on which a rename fails: the directory docs/sub cannot take
\* the name of the dangling link docs/Sub; box is a second root
FailFs ==
    << Entry(0, Docs, "dir", <<>>), Entry(1, N_sub, "dir", <<>>), Entry(1, N_Sub, "link", N_zz),
       Entry(1, N_a, "file", <<>>), Entry(0, N_box, "dir", <<>>), Entry(5, N_a, "file", <<>>) >>

\* a forward run over both roots with directories, and the replay of a plan
\* whose first row is the rename that fails
FailArgs ==
    { [BaseArgs EXCEPT !.roots = << <<Docs>>, <<N_box>> >>, !.include_dirs = TRUE,
                       !.apply = ap] : ap \in BOOLEAN }
    \cup
    { [BaseArgs EXCEPT !.plan_in = TRUE, !.apply = ap,
                       !.plan = << << <<Docs, N_sub>>, N_Sub >>, << <<Docs, N_a>>, N_A >> >>] :
        ap \in BOOLEAN }

\* {modified:%Q} {stem}{ext}: a directive strftime does not know
T_badfmt ==
    <<"{","m","o","d","i","f","i","e","d",":","%","Q","}"," ","{","s","t","e","m","}","{","e","x","t","}">>
\* {created:abc} {stem}{ext}: a specifier that is no strftime format
T_nofmt ==
    <<"{","c","r","e","a","t","e","d",":","a","b","c","}"," ","{","s","t","e","m","}","{","e","x","t","}">>

\* two files side by side
TwoFiles == << Entry(0, Docs, "dir", <<>>), Entry(1, N_a, "file", <<>>), Entry(1, N_b, "file", <<>>) >>

\* runs whose template holds a date token with a bad specifier
BadDateArgs ==
    { [BaseArgs EXCEPT !.template = t, !.apply = ap] : t \in {T_badfmt, T_nofmt}, ap \in BOOLEAN }

\* one file with an upper case extension
OneOdd == << Entry(0, Docs, "dir", <<>>), Entry(1, N_my, "file", <<>>) >>

SmallDirs == {TwoFiles, OneOdd}

\* runs with the template {stem}, with and without --keep-ext
KeepExtArgs ==
    { [BaseArgs EXCEPT !.template = TokStem, !.keep_ext = ke, !.apply = ap] :
        ke \in BOOLEAN, ap \in BOOLEAN }

\* the files a and 1
N_plain == <<"a">>
N_1 == <<"1">>
PlainFiles ==
    << Entry(0, Docs, "dir", <<>>), Entry(1, N_plain, "file", <<>>), Entry(1, N_1, "file", <<>>) >>

\* runs with the template {counter}, --keep-ext and a substitution that
\* turns the first retried name, 02, into the empty name, into . or into ..
CounterOnlyArgs ==
    { [BaseArgs EXCEPT !.template = TokCounter, !.keep_ext = TRUE, !.apply = ap,
                       !.subs = << << <<"0","2">>, r >> >>] :
        r \in { <<>>, <<".">>, <<".", ".">> }, ap \in BOOLEAN }

\* b.TXT beside B 1.txt, the first name b.TXT gets under {stem} {counter}{ext}
\* with the extension in lower case
N_bTXT == <<"b",".","T","X","T">>
N_B1 == <<"B"," ","1",".","t","x","t">>
ExtFiles ==
    << Entry(0, Docs, "dir", <<>>), Entry(1, N_bTXT, "file", <<>>), Entry(1, N_B1, "file", <<>>) >>

\* runs with --ext-case lower or upper
ExtCaseArgs ==
    { [BaseArgs EXCEPT !.template = t, !.ext_case = ec, !.apply = ap] :
        t \in {T_counter, T_stem_ext}, ec \in {"lower", "upper"}, ap \in BOOLEAN }

\* runs with --translate th-en, over every state of the translation module
\* and of the provider
TranslateArgs ==
    { [BaseArgs EXCEPT !.translate_mode = "th-en", !.module_ok = mo, !.provider = pr,
                       !.apply = ap] :
        mo \in BOOLEAN, pr \in {"works", "fails", "flaky"}, ap \in BOOLEAN }

\* ------------------------------------------------------------------------
\* The state machine: invocations of rename.run(args, cfg) on one file system
\* ------------------------------------------------------------------------

\* the number of invocations of run the model follows
MaxRuns == 2

VARIABLES
    fs,            \* the file system
    fs0,           \* the file system before the first run
    args,          \* the arguments of run
    order,         \* the order in which directories enumerate their entries
    pc,            \* "idle", "forward", "replay", "done", "spin" (a loop that does not
                   \* end), "raised" (run left by an exception) or "probe"
    runNo,         \* the number of the current run
    rootsLeft,     \* the roots run has yet to process
    walk,          \* os.walk: the directories still to visit, the next one first
    items,         \* the candidates (forward) or plan rows (replay) still to process
    planned_rows,  \* the plan of the current run
    changed,       \* run's variable changed
    rc,            \* the return value of the last finished run
    events,        \* every planned rename so far, as printed by "rename:" lines
    plans,         \* the plans of the finished runs
    ends,          \* the file systems at the end of the finished runs
    probe,         \* a call of one function on its own: its arguments and its result
    seen           \* the entries the loop body of the current forward run has taken up

vars == <<fs, fs0, args, order, pc, runNo, rootsLeft, walk, items, planned_rows,
          changed, rc, events, plans, ends, probe, seen>>

\* no function has been called on its own
NoProbe == [op |-> "none"]

Init ==
    /\ \/ fs \in InitialDirs /\ args \in ForwardArgs \cup ReplayArgs \cup HeaderArgs
       \/ fs = FailFs /\ args \in FailArgs
       \/ fs = PlainFiles /\ args \in CounterOnlyArgs
       \/ fs = ExtFiles /\ args \in ExtCaseArgs
       \/ fs \in SmallDirs /\ args \in BadDateArgs \cup TranslateArgs \cup KeepExtArgs
    /\ fs0 = fs
    /\ order \in {"asc", "desc"}
    /\ args.plan_in => order = "asc"
    /\ args.plan_in => \E i \in DOMAIN args.plan : LStat(fs, args.plan[i][1]) # None
    /\ pc = "idle"
    /\ runNo = 1
    /\ rootsLeft = <<>>
    /\ walk = <<>>
    /\ items = <<>>
    /\ planned_rows = <<>>
    /\ changed = 0
    /\ rc = None
    /\ events = <<>>
    /\ plans = <<>>
    /\ ends = <<>>
    /\ probe = NoProbe
    /\ seen = {}

\* the plan file is read: the replay starts with its rows, or run is left by
\* the exception of _read_plan_csv
PlanRead(r) ==
    IF r.raised # "none"
    THEN pc' = "raised" /\ UNCHANGED <<items, changed>>
    ELSE pc' = "replay" /\ items' = r.rows /\ changed' = 0

\* run, up to the plan-in fast path: the plan is read
BeginReplay ==
    /\ pc = "idle"
    /\ args.plan_in
    /\ PlanRead(read_plan_csv(args.plan_head, args.plan))
    /\ seen' = {}
    /\ UNCHANGED <<probe, fs, fs0, args, order, runNo, rootsLeft, walk, planned_rows, rc,
                   events, plans, ends>>

\* a variant in which the list planned outlives the invocation
BeginForwardKeepsPlan ==
    /\ pc = "idle"
    /\ ~args.plan_in
    /\ pc' = "forward"
    /\ rootsLeft' = args.roots
    /\ changed' = 0
    /\ seen' = {}
    /\ UNCHANGED <<probe, fs, fs0, args, order, runNo, walk, items, planned_rows, rc, events,
                   plans, ends>>

\* run, up to the loop over the roots
BeginForward ==
    /\ pc = "idle"
    /\ ~args.plan_in
    /\ pc' = "forward"
    /\ rootsLeft' = args.roots
    /\ changed' = 0
    /\ planned_rows' = <<>>
    /\ seen' = {}
    /\ UNCHANGED <<probe, fs, fs0, args, order, runNo, walk, items, rc, events, plans, ends>>

\* the next root in files-only mode: the list of its files is collected
StartRootFiles ==
    /\ pc = "forward"
    /\ items = <<>> /\ walk = <<>> /\ rootsLeft # <<>>
    /\ ~args.include_dirs
    /\ items' = iter_files(fs, Head(rootsLeft), order)
    /\ rootsLeft' = Tail(rootsLeft)
    /\ UNCHANGED <<seen, probe, fs, fs0, args, order, pc, runNo, walk, planned_rows, changed, rc,
                   events, plans, ends>>

\* the next root with include_dirs: os.walk(root, topdown=True) starts
StartRootWalk ==
    /\ pc = "forward"
    /\ items = <<>> /\ walk = <<>> /\ rootsLeft # <<>>
    /\ args.include_dirs
    /\ walk' = <<Head(rootsLeft)>>
    /\ rootsLeft' = Tail(rootsLeft)
    /\ UNCHANGED <<seen, probe, fs, fs0, args, order, pc, runNo, items, planned_rows, changed, rc,
                   events, plans, ends>>

\* the paths of the entries ids of the directory top
PathsIn(f, top, ids) == [k \in 1..Len(ids) |-> Append(top, f[ids[k]].name)]

\* the directory top is listed: dps are its subdirectories, fps the rest
Yield(dps, fps) ==
    /\ items' = dps \o fps
    /\ walk' = dps \o Tail(walk)

\* os.walk yields the next directory: its subdirectories and files become the
\* items, and the walk goes on into the subdirectories under the names they
\* have now; a directory that cannot be listed, or is a link, is passed over
WalkDir ==
    /\ pc = "forward"
    /\ items = <<>> /\ walk # <<>>
    /\ IF ~IsDir(fs, Head(walk)) \/ (Len(Head(walk)) > 1 /\ IsSymlink(fs, Head(walk)))
       THEN /\ walk' = Tail(walk)
            /\ items' = items
       ELSE Yield(PathsIn(fs, Head(walk), ScanDirs(fs, Stat(fs, Head(walk)), order)),
                  PathsIn(fs, Head(walk), ScanNonDirs(fs, Stat(fs, Head(walk)), order)))
    /\ UNCHANGED <<seen, probe, fs, fs0, args, order, pc, runNo, rootsLeft, planned_rows, changed,
                   rc, events, plans, ends>>

\* the record of one planned rename of p to target: the entries at the two
\* names, whether os.rename was called, and whether it succeeded
Event(p, target, ok) ==
    [run |-> runNo, src |-> p, dst |-> PName(target), id |-> LStat(fs, p),
     hit |-> LStat(fs, target), issued |-> Applies(args), ok |-> ok]

\* the planned rename is printed and, unless the run is dry, tried
Issue(p, target, ok) ==
    /\ events' = Append(events, Event(p, target, ok))
    /\ fs' = IF ok THEN RenameFs(fs, p, target) ELSE fs

\* a variant that calls os.rename in a dry run too
RenamedAnyway(p, target) == RenameOk(fs, p, target)

Renamed(p, target) == Applies(args) /\ RenameOk(fs, p, target)

\* a variant in which a rename that fails ends the run
ProcessedOrRaise(p, d) ==
    CASE d.kind = "skip" ->
           /\ items' = Tail(items)
           /\ UNCHANGED <<fs, pc, planned_rows, events>>
      [] d.kind = "spin" ->
           /\ pc' = "spin"
           /\ UNCHANGED <<fs, items, planned_rows, events>>
      [] d.kind = "raise" ->
           /\ pc' = "raised"
           /\ UNCHANGED <<fs, items, planned_rows, events>>
      [] OTHER ->
           /\ items' = Tail(items)
           /\ planned_rows' = Append(planned_rows, <<p, PName(d.target)>>)
           /\ Issue(p, d.target, Renamed(p, d.target))
           /\ pc' = IF Applies(args) /\ ~Renamed(p, d.target) THEN "raised" ELSE pc

\* the end of one iteration of _process_items' loop that decided d for p
Processed(p, d) ==
    CASE d.kind = "skip" ->
           /\ items' = Tail(items)
           /\ UNCHANGED <<fs, pc, planned_rows, events>>
      [] d.kind = "spin" ->
           /\ pc' = "spin"
           /\ UNCHANGED <<fs, items, planned_rows, events>>
      [] d.kind = "raise" ->
           /\ pc' = "raised"
           /\ UNCHANGED <<fs, items, planned_rows, events>>
      [] OTHER ->
           /\ items' = Tail(items)
           /\ planned_rows' = Append(planned_rows, <<p, PName(d.target)>>)
           /\ Issue(p, d.target, Renamed(p, d.target))
           /\ pc' = pc

\* the entry the loop body takes up for p: none for a symbolic link and for a
\* path that stat does not find
TakenUp(f, p) == IF IsSymlink(f, p) \/ ~Exists(f, p) THEN {} ELSE {Stat(f, p)}

\* one iteration of _process_items' loop, for the candidate Head(items)
ProcessItem ==
    /\ pc = "forward"
    /\ items # <<>>
    /\ Processed(Head(items), Decide(fs, args, Head(items)))
    /\ seen' = seen \cup TakenUp(fs, Head(items))
    /\ UNCHANGED <<probe, fs0, args, order, runNo, rootsLeft, walk, changed, rc, plans, ends>>

Count(ok) == changed' = IF ok THEN changed + 1 ELSE changed

\* the end of one iteration of the replay loop that decided d for old_path
Replayed(old_path, d) ==
    CASE d.kind = "skip" ->
           /\ items' = Tail(items)
           /\ UNCHANGED <<fs, pc, events, changed>>
      [] d.kind = "spin" ->
           /\ pc' = "spin"
           /\ UNCHANGED <<fs, items, events, changed>>
      [] OTHER ->
           /\ items' = Tail(items)
           /\ Issue(old_path, d.target, Renamed(old_path, d.target))
           /\ Count(Renamed(old_path, d.target))
           /\ pc' = pc

\* one iteration of the replay loop, for the plan row Head(items)
ReplayEntry ==
    /\ pc = "replay"
    /\ items # <<>>
    /\ Replayed(Head(items)[1], DecideReplay(fs, args, Head(items)))
    /\ UNCHANGED <<seen, probe, fs0, args, order, runNo, rootsLeft, walk, planned_rows, rc, plans, ends>>

\* run returns 0 after the last root (the plan is written, the summary printed)
FinishForward ==
    /\ pc = "forward"
    /\ items = <<>> /\ walk = <<>> /\ rootsLeft = <<>>
    /\ pc' = "done"
    /\ rc' = 0
    /\ plans' = Append(plans, planned_rows)
    /\ ends' = Append(ends, fs)
    /\ UNCHANGED <<seen, probe, fs, fs0, args, order, runNo, rootsLeft, walk, items, planned_rows,
                   changed, events>>

\* run returns 0 after the last plan row
FinishReplay ==
    /\ pc = "replay"
    /\ items = <<>>
    /\ pc' = "done"
    /\ rc' = 0
    /\ plans' = Append(plans, args.plan)
    /\ ends' = Append(ends, fs)
    /\ UNCHANGED <<seen, probe, fs, fs0, args, order, runNo, rootsLeft, walk, items, planned_rows,
                   changed, events>>

\* the command is invoked again, with the same arguments, on the directory as it is
Rerun ==
    /\ pc = "done"
    /\ runNo < MaxRuns
    /\ pc' = "idle"
    /\ runNo' = runNo + 1
    /\ UNCHANGED <<seen, probe, fs, fs0, args, order, rootsLeft, walk, items, planned_rows, changed,
                   rc, events, plans, ends>>

\* after a dry run the command is invoked with --apply, the other arguments
\* and the directory being the same
RerunApplied ==
    /\ pc = "done"
    /\ runNo < MaxRuns
    /\ ~args.plan_in /\ ~args.apply
    /\ args' = [args EXCEPT !.apply = TRUE]
    /\ pc' = "idle"
    /\ runNo' = runNo + 1
    /\ UNCHANGED <<seen, probe, fs, fs0, order, rootsLeft, walk, items, planned_rows, changed, rc,
                   events, plans, ends>>

\* the rows of plan in another order
Reorderings(plan) ==
    {q \in [DOMAIN plan -> Range(plan)] : Range(q) = Range(plan) /\ q # plan}

\* the command is invoked with the rows of the plan file in another order, on a
\* copy of the directory as it was before the first run
ReplayPermuted ==
    /\ pc = "done"
    /\ runNo < MaxRuns
    /\ args.plan_in /\ args.apply
    /\ args.plan = plans[1]
    /\ \E q \in Reorderings(args.plan) : args' = [args EXCEPT !.plan = q]
    /\ fs' = fs0
    /\ pc' = "idle"
    /\ runNo' = runNo + 1
    /\ UNCHANGED <<seen, probe, fs0, order, rootsLeft, walk, items, planned_rows, changed, rc, events,
                   plans, ends>>

Next ==
    \/ BeginReplay
    \/ BeginForward
    \/ StartRootFiles
    \/ StartRootWalk
    \/ WalkDir
    \/ ProcessItem
    \/ ReplayEntry
    \/ FinishForward
    \/ FinishReplay
    \/ Rerun
    \/ RerunApplied
    \/ ReplayPermuted

Spec == Init /\ [][Next]_vars

\* ------------------------------------------------------------------------
\* Functions called on their own, outside a run
\* ------------------------------------------------------------------------

\* the longest name made of the characters of NameChars
MaxNameLen == 4

NameChars == {".", "a", "b"}

RECURSIVE NamesUpTo(_)
NamesUpTo(n) ==
    IF n = 0 THEN {<<>>}
    ELSE NamesUpTo(n - 1) \cup {Append(q, c) : q \in NamesUpTo(n - 1), c \in NameChars}

\* archive.tar.gz
N_archive == <<"a","r","c","h","i","v","e",".","t","a","r",".","g","z">>
\* .bashrc
N_bashrc == <<".","b","a","s","h","r","c">>

ProbeNames == NamesUpTo(MaxNameLen) \cup {N_archive, N_bashrc}

\* no run is under way: functions are called on their own
ProbeInit ==
    /\ fs = <<Entry(0, Docs, "dir", <<>>)>>
    /\ fs0 = fs
    /\ args = BaseArgs
    /\ order = "asc"
    /\ pc = "probe"
    /\ runNo = 1
    /\ rootsLeft = <<>>
    /\ walk = <<>>
    /\ items = <<>>
    /\ planned_rows = <<>>
    /\ changed = 0
    /\ rc = None
    /\ events = <<>>
    /\ plans = <<>>
    /\ ends = <<>>
    /\ probe = NoProbe
    /\ seen = {}

\* split_name_ext(name) is called
CallSplitNameExt ==
    /\ pc = "probe"
    /\ \E name \in ProbeNames :
           probe' = [op |-> "split_name_ext", name |-> name, out |-> split_name_ext(name)]
    /\ UNCHANGED <<seen, fs, fs0, args, order, pc, runNo, rootsLeft, walk, items, planned_rows,
                   changed, rc, events, plans, ends>>

\* the cache files and the texts translate_cached is called with
CacheFiles ==
    { [kind |-> k, hit |-> FALSE] :
        k \in {"absent", "unreadable", "invalid", "object", "list", "string", "number", "null"} }
    \cup { [kind |-> k, hit |-> TRUE] : k \in {"object", "list", "string"} }

ProbeTexts == { <<"a">>, <<"b">>, <<" ">> }

\* a call of translate_cached
CallTranslateCached ==
    /\ pc = "probe"
    /\ \E text \in ProbeTexts, provider \in {"works", "fails", "flaky"}, cache \in CacheFiles :
          probe' = [op |-> "translate_cached", text |-> text, provider |-> provider,
                    cache |-> cache, out |-> translate_cached(text, provider, cache)]
    /\ UNCHANGED <<seen, fs, fs0, args, order, pc, runNo, rootsLeft, walk, items, planned_rows,
                   changed, rc, events, plans, ends>>

\* the current names and the computed names the guard is asked about
N_A_b == <<"A","_","b",".","t","x","t">>
N_Ab == <<"A"," ","b",".","t","x","t">>
N_B_a == <<"B","-","a",".","t","x","t">>
N_Bc == <<"B"," ","c",".","t","x","t">>
N_day_a == <<"2","0","2","4","0","3","0","5"," ","a",".","t","x","t">>
N_iso_a == <<"2","0","2","4","-","0","3","-","0","5","_","a",".","t","x","t">>
N_isoA == <<"2","0","2","4","-","0","3","-","0","5"," ","A",".","t","x","t">>
N_dash == <<"-","x">>

GuardNames == {N_a, N_A, N_A_b, N_Ab, N_B_a, N_day_a, N_iso_a, N_dash}
GuardNewNames == {N_A, N_Ab, N_Bc, N_isoA, N_dash, N_b}
GuardPatterns == {"none", "true", "A", "(", ""}

\* the guard of the loop body is evaluated
CallSkipIfAlready ==
    /\ pc = "probe"
    /\ \E skip \in BOOLEAN, ipp \in GuardPatterns, name \in GuardNames, new_name \in GuardNewNames :
          probe' = [op |-> "skip_if_already", skip |-> skip, ipp |-> ipp, name |-> name,
                    new_name |-> new_name,
                    out |-> SkipIfAlready([BaseArgs EXCEPT !.skip_if_already = skip,
                                                           !.idempotent_prefix = ipp],
                                          name, new_name)]
    /\ UNCHANGED <<seen, fs, fs0, args, order, pc, runNo, rootsLeft, walk, items, planned_rows,
                   changed, rc, events, plans, ends>>

\* the stems smart_title_case is called with: the cat; cat of the; -the cat;
\* cat the-; - the cat; the-cat; of; cat-of-dog; -of; pdf of the; a-; -a-b
SmartTexts ==
    {
      <<"t","h","e"," ","c","a","t">>,
      <<"c","a","t"," ","o","f"," ","t","h","e">>,
      <<"-","t","h","e"," ","c","a","t">>,
      <<"c","a","t"," ","t","h","e","-">>,
      <<"-"," ","t","h","e"," ","c","a","t">>,
      <<"t","h","e","-","c","a","t">>,
      <<"o","f">>,
      <<"c","a","t","-","o","f","-","d","o","g">>,
      <<"-","o","f">>,
      <<"p","d","f"," ","o","f"," ","t","h","e">>,
      <<"a","-">>,
      <<"-","a","-","b">> }

\* a call of smart_title_case
CallSmartTitleCase ==
    /\ pc = "probe"
    /\ \E text \in SmartTexts :
          probe' = [op |-> "smart_title_case", text |-> text, out |-> smart_title_case(text)]
    /\ UNCHANGED <<seen, fs, fs0, args, order, pc, runNo, rootsLeft, walk, items, planned_rows,
                   changed, rc, events, plans, ends>>

\* the most requests a call is followed for
MaxAttempts == 4

\* the translate method of a provider is called
CallTranslate ==
    /\ pc = "probe"
    /\ \E provider \in {"googletrans", "gcloud"}, text \in ProbeTexts,
          fails \in [1..MaxAttempts -> BOOLEAN] :
          probe' = [op |-> "translate", provider |-> provider, text |-> text, fails |-> fails,
                    out |-> Translate(provider, text, fails)]
    /\ UNCHANGED <<seen, fs, fs0, args, order, pc, runNo, rootsLeft, walk, items, planned_rows,
                   changed, rc, events, plans, ends>>

\* the file names the template is rendered for: a.txt; x{ext}.txt;
\* {counter}.txt; x{parent}.txt; x{stem}.txt; a.{stem}; x{created}.txt
RenderNames ==
    {
      <<"a",".","t","x","t">>,
      <<"x","{","e","x","t","}",".","t","x","t">>,
      <<"{","c","o","u","n","t","e","r","}",".","t","x","t">>,
      <<"x","{","p","a","r","e","n","t","}",".","t","x","t">>,
      <<"x","{","s","t","e","m","}",".","t","x","t">>,
      <<"a",".","{","s","t","e","m","}">>,
      <<"x","{","c","r","e","a","t","e","d","}",".","t","x","t">> }

\* the templates rendered: {stem}{ext}; {parent} {stem}{ext}; {ext}{stem};
\* {stem} {counter}{ext}; {created} {stem}{ext}
RenderTemplates ==
    {
      <<"{","s","t","e","m","}","{","e","x","t","}">>,
      <<"{","p","a","r","e","n","t","}"," ","{","s","t","e","m","}","{","e","x","t","}">>,
      <<"{","e","x","t","}","{","s","t","e","m","}">>,
      <<"{","s","t","e","m","}"," ","{","c","o","u","n","t","e","r","}","{","e","x","t","}">>,
      <<"{","c","r","e","a","t","e","d","}"," ","{","s","t","e","m","}","{","e","x","t","}">> }

\* a call of _format_with_dates for a file of the directory docs
CallFormatWithDates ==
    /\ pc = "probe"
    /\ \E name \in RenderNames, template \in RenderTemplates :
          probe' = [op |-> "format_with_dates", name |-> name, template |-> template,
                    out |-> format_with_dates(<<Docs, name>>, template, OlderTime, FixedTime)]
    /\ UNCHANGED <<seen, fs, fs0, args, order, pc, runNo, rootsLeft, walk, items, planned_rows,
                   changed, rc, events, plans, ends>>

ProbeNext ==
    \/ CallSplitNameExt
    \/ CallFormatWithDates
    \/ CallTranslate
    \/ CallSmartTitleCase
    \/ CallSkipIfAlready
    \/ CallTranslateCached

ProbeSpec == ProbeInit /\ [][ProbeNext]_vars

\* ------------------------------------------------------------------------
\* The claims
\* ------------------------------------------------------------------------

ForwardApply == args.apply /\ ~args.plan_in

ReplayApply == args.apply /\ args.plan_in

\* the events of run n
EventsOf(n) == {k \in DOMAIN events : events[k].run = n}

\* C1: in apply mode the forward flow never overwrites: every rename it issues
\* goes to a name that is absent from the candidate's directory at that moment,
\* or is the candidate's own, and every entry that existed before the run
\* still exists afterwards
C1_ForwardNeverOverwrites ==
    ForwardApply =>
        /\ \A k \in EventsOf(1) :
               events[k].issued => events[k].hit \in {None, events[k].id}
        /\ runNo = 1 => \A i \in LiveIds(fs0) : fs[i].live

\* C2: no two rows of the plan of one forward run give the same new name to
\* entries of the same directory, in a dry run as in an apply run
C2_DistinctFinalNames ==
    ~args.plan_in =>
        \A i, j \in DOMAIN planned_rows :
            (i # j /\ PParent(planned_rows[i][1]) = PParent(planned_rows[j][1]))
                => planned_rows[i][2] # planned_rows[j][2]

\* C3: with skip_if_already, an entry renamed by an apply run is renamed by no
\* second run of the same command on the same directory
C3_SecondRunRenamesNothing ==
    (ForwardApply /\ args.skip_if_already) =>
        \A j \in EventsOf(1), k \in EventsOf(2) :
            events[j].ok => events[k].id # events[j].id

\* the arguments of the end-to-end case: the dated template, smart case,
\* lower-case extension, symbols dropped, underscores converted, sanitize by drop
EndToEndArgs ==
    /\ ForwardApply
    /\ args.template = T_date
    /\ args.case_mode = "smart" /\ args.ext_case = "lower"
    /\ ~args.keep_symbols /\ ~args.keep_underscores
    /\ ~args.no_sanitize /\ args.sanitize_mode = "drop"

\* 2024-03-05 My File Draft.txt
N_dated == <<"2","0","2","4","-","0","3","-","0","5"," ","M","y"," ","F","i","l","e"," ",
             "D","r","a","f","t",".","t","x","t">>

\* the entries that were named name in the root directory before the first run
NamedAtFirst(name) == {i \in LiveIds(fs0) : fs0[i].par = 1 /\ fs0[i].name = name}

\* C4: with the end-to-end arguments, the file my_file "draft"?.TXT modified
\* on 2024-03-05 is, when the run has returned, named
\* 2024-03-05 My File Draft.txt, its old name is gone, and run returned 0
C4_EndToEnd ==
    (EndToEndArgs /\ pc = "done" /\ runNo = 1) =>
        /\ rc = 0
        /\ \A i \in NamedAtFirst(N_my) : fs[i].live /\ fs[i].par = 1 /\ fs[i].name = N_dated
        /\ NamedAtFirst(N_my) # {} => LStat(fs, <<Docs, N_my>>) = None

C4_Witness ==
    /\ EndToEndArgs /\ pc = "done" /\ runNo = 1
    /\ NamedAtFirst(N_my) # {}
    /\ LStat(fs, <<Docs, N_dated>>) \in NamedAtFirst(N_my)

PlanNames(src) == {args.plan[k][2] : k \in {m \in DOMAIN args.plan : args.plan[m][1] = src}}

\* C6: in apply mode the replay never overwrites: a source whose planned name
\* was taken by another entry is renamed to a name that is free at that moment
C6_ReplayNeverOverwrites ==
    (ReplayApply /\ runNo = 1) =>
        \A k \in EventsOf(1) :
            (events[k].issued /\ events[k].dst \notin PlanNames(events[k].src))
                => events[k].hit = None

\* the planned name with one suffix: stem, space, the padded counter, extension
OneSuffix(name, n, pad) == PathStem(name) \o <<" ">> \o ZFill(Str(n), pad) \o PathSuffix(name)

\* C7: the name the replay chooses for a row is the planned name or, when
\* that is taken, the planned name with exactly one counter suffix, the
\* counter being the smallest from 2 on whose name is free
C7_OneMinimalSuffix ==
    (args.plan_in /\ runNo = 1) =>
        \A k \in EventsOf(1) :
            \A name \in PlanNames(events[k].src) :
                \/ events[k].dst = name
                \/ \E n \in 2..(MaxCounter + 1) : events[k].dst = OneSuffix(name, n, args.pad)

\* C8: the collision loop of the forward flow ends for every candidate: with
\* a free name, or with an error once the counter has passed a ceiling
C8_LoopEnds == ~args.plan_in => pc # "spin"

FinalName(f, src) == f[LStat(fs0, src)].name

\* C10: replaying the rows of a plan in another order leaves every source
\* with the same final name
C10_OrderIrrelevant ==
    (ReplayApply /\ Len(ends) = 2 /\ args.plan # plans[1]) =>
        \A k \in DOMAIN args.plan :
            LStat(fs0, args.plan[k][1]) # None =>
                FinalName(ends[2], args.plan[k][1]) = FinalName(ends[1], args.plan[k][1])

\* the position of the last dot of name, 0 when it has none
LastDotOf(name) ==
    IF \A i \in 1..Len(name) : name[i] # "." THEN 0
    ELSE CHOOSE i \in 1..Len(name) : name[i] = "." /\ \A j \in (i + 1)..Len(name) : name[j] # "."

\* the name begins with a dot and has no other dot
OnlyLeadingDot(name) == LastDotOf(name) = 1

\* C16: split_name_ext gives (name, '') for a name without a dot and for a
\* name whose only dot is its first character, and otherwise (the text before
\* the last dot, the text from the last dot on)
C16_SplitNameExt ==
    probe.op = "split_name_ext" =>
        probe.out =
            IF LastDotOf(probe.name) = 0 \/ OnlyLeadingDot(probe.name)
            THEN <<probe.name, <<>>>>
            ELSE <<SubSeq(probe.name, 1, LastDotOf(probe.name) - 1),
                   SubSeq(probe.name, LastDotOf(probe.name), Len(probe.name))>>

\* archive.tar
N_archive_tar == <<"a","r","c","h","i","v","e",".","t","a","r">>

C16_Witness ==
    /\ probe.op = "split_name_ext"
    /\ probe.name = N_archive
    /\ probe.out = <<N_archive_tar, <<".","g","z">>>>

\* the header row of the plan file lacks a column, or there is no header row
HeaderLacksColumn ==
    \/ ~args.plan_head.has
    \/ \A k \in DOMAIN args.plan_head.cols : args.plan_head.cols[k] # "old_path"
    \/ \A k \in DOMAIN args.plan_head.cols : args.plan_head.cols[k] # "new_name"

\* C11: a plan file whose header row lacks old_path or new_name, or that has
\* no header row, ends the replay before any row is replayed: nothing is
\* renamed, the directory is as it was, and run does not return
C11_BadHeaderIsFatal ==
    (args.plan_in /\ HeaderLacksColumn) =>
        /\ pc \in {"idle", "raised"}
        /\ events = <<>>
        /\ fs = fs0
        /\ rc = None

C11_Witness ==
    /\ args.plan_in /\ args.apply
    /\ ~args.plan_head.has
    /\ pc = "raised"
    /\ LStat(fs, args.plan[1][1]) # None

\* the step appends the event of a rename that was tried and failed
RenameFailsNow ==
    /\ Len(events') = Len(events) + 1
    /\ events'[Len(events')].issued
    /\ ~events'[Len(events')].ok

\* the events of run 1 of renames that were tried and failed
FailedEvents == {k \in EventsOf(1) : events[k].issued /\ ~events[k].ok}

\* C12: a rename that fails leaves the candidate under its name and the run
\* going: the loop moves on to the next candidate, the roots and directories
\* still to visit stay in place, the candidates after it are renamed, and run
\* returns 0
C12_RenameFailureIsolated ==
    /\ [][RenameFailsNow =>
              /\ fs' = fs
              /\ items' = Tail(items)
              /\ pc' = pc /\ rootsLeft' = rootsLeft /\ walk' = walk]_vars
    /\ [](FailedEvents # {} => pc # "raised")
    /\ []((FailedEvents # {} /\ pc = "done" /\ runNo = 1) =>
              /\ rc = 0
              /\ \A k \in FailedEvents : LStat(fs, events[k].src) = events[k].id
              /\ fs0 = FailFs =>
                    /\ fs[4].name = N_A
                    /\ ~args.plan_in => fs[6].name = N_A)

C12_Witness ==
    /\ fs0 = FailFs /\ ~args.plan_in
    /\ pc = "done" /\ rc = 0
    /\ FailedEvents # {}
    /\ \E k \in EventsOf(1) : events[k].ok /\ events[k].src = <<N_box, N_a>>

\* the directives of strftime that the model renders
KnownDirectives == {"Y", "m", "d", "H", "M", "S", "%"}

RECURSIVE WellFormedFmt(_)
WellFormedFmt(fmt) ==
    IF fmt = <<>> THEN TRUE
    ELSE IF Head(fmt) = "%"
    THEN Len(fmt) >= 2 /\ fmt[2] \in KnownDirectives /\ WellFormedFmt(From(fmt, 2))
    ELSE WellFormedFmt(Tail(fmt))

\* tok: is followed at position at of t by something that is no strftime format
BadSpecifierAt(t, at, tok) ==
    /\ HasAt(t, tok \o <<":">>, at)
    /\ \/ DateMatchOf(t, at, tok).len = 0
       \/ ~WellFormedFmt(DateMatchOf(t, at, tok).fmt)

\* the template holds a {created:...} or {modified:...} token with a
\* malformed format specifier
MalformedDate(t) ==
    \E at \in 1..Len(t) : BadSpecifierAt(t, at, TokCreated) \/ BadSpecifierAt(t, at, TokModified)

\* C13: under a template with a malformed date specifier every candidate is
\* skipped, neither renamed nor recorded in the plan, and the run is not
\* aborted
C13_MalformedDateSkipped ==
    (~args.plan_in /\ MalformedDate(args.template)) =>
        /\ events = <<>>
        /\ planned_rows = <<>>
        /\ fs = fs0
        /\ pc # "raised"

\* the stem that is handed to the translation for candidate p
StemToTranslate(p) ==
    split_name_ext(BaseName(args, p, args.template, fs[Stat(fs, p)].created,
                            fs[Stat(fs, p)].modified))[1]

\* translation is requested and fails for candidate p: the module cannot be
\* loaded, or the call raises
TranslationFails(p) ==
    /\ args.translate_mode = "th-en"
    /\ Exists(fs, p) /\ ~IsSymlink(fs, p)
    /\ \/ ~args.module_ok
       \/ translate_cached(StemToTranslate(p), args.provider, args.cache).raised # "none"

Untranslated == [args EXCEPT !.translate_mode = "none"]

\* the step of the loop for p does what it does under the arguments a
StepsAs(p, d) ==
    /\ pc' = pc
    /\ items' = Tail(items)
    /\ IF d.kind = "skip" THEN events' = events /\ fs' = fs
       ELSE /\ Len(events') = Len(events) + 1
            /\ events'[Len(events')].src = p
            /\ events'[Len(events')].dst = PName(d.target)
            /\ planned_rows' = Append(planned_rows, <<p, PName(d.target)>>)
            /\ fs' = IF args.apply /\ RenameOk(fs, p, d.target) THEN RenameFs(fs, p, d.target)
                      ELSE fs

\* C14: a candidate for which the requested translation fails is given the
\* name it gets with translation disabled, and the run goes on
C14_TranslationFallsBack ==
    [][(pc = "forward" /\ items # <<>> /\ items' # items /\ TranslationFails(Head(items)))
          => StepsAs(Head(items), Decide(fs, Untranslated, Head(items)))]_vars

C14_Witness ==
    /\ args.translate_mode = "th-en" /\ args.provider = "flaky" /\ args.module_ok
    /\ args.apply /\ pc = "done" /\ rc = 0
    /\ fs[2].name = N_A
    /\ fs[3].name = <<"E","n"," ","B",".","t","x","t">>

\* the kinds of cache file that are missing or corrupt
CorruptKinds == {"absent", "unreadable", "invalid", "list", "string", "number", "null"}

\* C15: with a missing or corrupt cache file translate_cached returns the
\* provider's translation whenever the provider's call succeeds
C15_CorruptCacheIsEmpty ==
    (/\ probe.op = "translate_cached"
     /\ probe.cache.kind \in CorruptKinds
     /\ Provide(probe.provider, probe.text).raised = "none")
    => probe.out = [raised |-> "none", out |-> ProviderOut(probe.text)]

\* the forward run uses a template without {ext}
NoExtToken == ~args.plan_in /\ ~Contains(args.template, TokExt)

\* C17 as stated: under a template without {ext} the original extension is
\* appended when keep_ext is set, and nothing is appended when it is not
C17_AppendedWhenKeepExt ==
    NoExtToken =>
        \A k \in EventsOf(1) :
            PathSuffix(events[k].dst) =
                IF args.keep_ext THEN PathSuffix(PName(events[k].src)) ELSE <<>>

\* C17, amended: under a template without {ext} the original extension is
\* appended as it is when keep_ext is not set, and nothing is appended when
\* keep_ext is set
C17_AppendedUnlessKeepExt ==
    NoExtToken =>
        \A k \in EventsOf(1) :
            PathSuffix(events[k].dst) =
                IF args.keep_ext THEN <<>> ELSE PathSuffix(PName(events[k].src))

C17_Witness ==
    /\ NoExtToken /\ ~args.keep_ext /\ args.apply /\ pc = "done"
    /\ fs0 = OneOdd
    /\ PathSuffix(fs[2].name) = <<".","T","X","T">>
    /\ fs[2].name # fs0[2].name

\* a valid pattern is in force: the preset, or a pattern that compiles
ValidPatternInForce(ipp) == ipp = "true" \/ ipp \in ValidPatterns

\* rule 2: the pattern in force matches at the start of the current name
Rule2(ipp, name) ==
    \/ ipp = "true" /\ MatchDatePrefix(name)
    \/ ipp = "A" /\ name # <<>> /\ name[1] = "A"

\* rule 3: the current name starts with the leading token of the computed
\* name (its first k characters, none a separator, the next one a separator)
\* followed by a space, an underscore or a dash
Rule3(name, new_name) ==
    \E k \in 1..(Len(new_name) - 1) :
        /\ \A i \in 1..k : new_name[i] \notin {" ", "_", "-"}
        /\ new_name[k + 1] \in {" ", "_", "-"}
        /\ Len(name) > k
        /\ SubSeq(name, 1, k) = SubSeq(new_name, 1, k)
        /\ name[k + 1] \in {" ", "_", "-"}

\* C18: with skip_if_already the guard skips exactly when the names are equal,
\* or a valid pattern is in force and matches the current name, or no valid
\* pattern is in force and rule 3 applies; without it the guard skips nothing
C18_GuardDecision ==
    probe.op = "skip_if_already" =>
        probe.out = (/\ probe.skip
                     /\ \/ probe.name = probe.new_name
                        \/ ValidPatternInForce(probe.ipp) /\ Rule2(probe.ipp, probe.name)
                        \/ ~ValidPatternInForce(probe.ipp) /\ Rule3(probe.name, probe.new_name))

\* the pattern does not compile and rule 3 skips the candidate
C18_Witness ==
    /\ probe.op = "skip_if_already"
    /\ probe.skip /\ probe.ipp = "("
    /\ probe.name = N_A_b /\ probe.new_name = N_Ab
    /\ probe.out

\* the names no entry may be given
InvalidNames == { <<>>, <<".">>, <<".", ".">> }

\* C19: the forward flow issues no rename to an empty name, to . or .., or to
\* the candidate's own name; a candidate with such a name is skipped and the
\* run goes on
C19_NoInvalidTarget ==
    ~args.plan_in =>
        /\ \A k \in DOMAIN events :
               events[k].issued =>
                   /\ events[k].dst \notin InvalidNames
                   /\ events[k].dst # PName(events[k].src)
        /\ pc # "raised"

\* the name S n E built from the name N = S E is free for candidate p: it
\* does not exist, or it resolves to p
FreeAt(p, N, n) == ~Collides(fs, WithName(p, OneSuffix(N, n, args.pad)), p)

\* the smallest counter from 2 on whose name is free
MinimalCounter(p, N) ==
    CHOOSE n \in 2..(MaxCounter + 1) : FreeAt(p, N, n) /\ \A j \in 2..(n - 1) : ~FreeAt(p, N, j)

\* candidate p, whose computed name is N, enters the collision loop
EntersLoop(p, N) ==
    /\ Exists(fs, p) /\ ~IsSymlink(fs, p)
    /\ N \notin InvalidNames
    /\ ~SkipIfAlready(args, PName(p), N)
    /\ Collides(fs, WithName(p, N), p)

\* the step settles candidate p on the name T
SettlesOn(p, T) ==
    IF T = PName(p) THEN events' = events /\ fs' = fs
    ELSE /\ Len(events') = Len(events) + 1
         /\ events'[Len(events')].src = p
         /\ events'[Len(events')].dst = T

CounterSuffixStep(p, N) ==
    EntersLoop(p, N) => SettlesOn(p, OneSuffix(N, MinimalCounter(p, N), args.pad))

\* C20: under a template without {counter}, a candidate whose computed name
\* N is taken by another entry is settled on stem(N) + ' ' + n padded + ext(N)
\* for the smallest n >= 2 whose name does not exist or is the candidate
C20_MinimalCounterSuffix ==
    [][(/\ pc = "forward" /\ items # <<>> /\ items' # items
        /\ ~Contains(args.template, TokCounter))
          => CounterSuffixStep(Head(items),
                               NewName(args, Head(items), fs[Stat(fs, Head(items))].created,
                                       fs[Stat(fs, Head(items))].modified))]_vars

\* a.txt finds A.txt and A 02.txt taken and becomes A 03.txt
C20_Witness ==
    /\ ~args.plan_in /\ ~Contains(args.template, TokCounter)
    /\ \E k \in EventsOf(1) :
          /\ events[k].dst = OneSuffix(N_A, 3, args.pad)
          /\ events[k].ok
          /\ \E i, j \in LiveIds(fs) : fs[i].name = N_A /\ fs[j].name = N_A02

\* the step appends the event of a rename that the forward flow issues
IssuesNow ==
    /\ ~args.plan_in
    /\ Len(events') = Len(events) + 1
    /\ events'[Len(events')].issued

\* the name dst beside src exists and resolves to the entry src resolves to
SelfCollision(src, dst) ==
    /\ Exists(fs, WithName(src, dst))
    /\ Stat(fs, WithName(src, dst)) = Stat(fs, src)

\* C21: no rename is issued against a name that exists and resolves to the
\* candidate itself
C21_NoRenameOnSelfCollision ==
    [][IssuesNow =>
          ~SelfCollision(events'[Len(events')].src, events'[Len(events')].dst)]_vars

\* the extension of name is in the case ext_case asks for
ExtInCase(name, ext_case) ==
    PathSuffix(name) = IF ext_case = "lower" THEN Lower(PathSuffix(name))
                       ELSE Upper(PathSuffix(name))

\* C22: with ext_case lower or upper and no substitutions, every name the
\* forward flow plans or applies has its extension in that case
C22_ExtCaseOnEveryName ==
    (/\ ~args.plan_in
     /\ args.ext_case \in {"lower", "upper"}
     /\ args.subs = <<>> /\ args.resubs = <<>>)
    => \A k \in DOMAIN events : ExtInCase(events[k].dst, args.ext_case)

\* the word tokens of a stem, in order
WordsOf(text) == SelectSeq(SplitWords(text), IsWordPart)

\* a word as the first or the last one is written: an acronym in upper case,
\* any other word capitalized
Outer(w) == IF Bare(w) \in ACRONYMS THEN Bare(w) ELSE Capitalize(Lower(w))

\* C23: the first and the last word token of a stem are always capitalized
\* (or upper-cased when an acronym), also when the stem begins or ends with
\* a dash; a small word between them is in lower case
C23_SmallWordsInside ==
    probe.op = "smart_title_case" =>
        LET w == WordsOf(probe.text)
            o == WordsOf(probe.out)
        IN /\ Len(o) = Len(w)
           /\ \A i \in 1..Len(w) :
                  IF i = 1 \/ i = Len(w) THEN o[i] = Outer(w[i])
                  ELSE Lower(w[i]) \in SMALL_WORDS /\ Bare(w[i]) \notin ACRONYMS
                           => o[i] = Lower(w[i])

\* the sleeps grow from one to the next
Increasing(delays) == \A i \in 1..(Len(delays) - 1) : delays[i] < delays[i + 1]

\* C24: whichever provider is configured, a call for a text that is not
\* blank makes at most 4 requests, sleeps between two requests for a time
\* that grows (0.5, 1.0, 1.5 seconds for googletrans), tries again after a
\* request that failed, returns the translation at the first request that
\* succeeds and raises when none of its requests does
C24_BoundedRetries ==
    (probe.op = "translate" /\ Strip(probe.text) # <<>>) =>
        LET o == probe.out
        IN /\ o.attempts \in 1..4
           /\ Len(o.delays) = o.attempts - 1
           /\ Increasing(o.delays)
           /\ probe.provider = "googletrans" => o.delays = SubSeq(<<1, 2, 3>>, 1, o.attempts - 1)
           /\ \A k \in 1..(o.attempts - 1) : probe.fails[k]
           /\ o.raised = probe.fails[o.attempts]
           /\ ~o.raised => o.out = ProviderOut(probe.text)
           /\ (probe.fails[1] /\ ~probe.fails[2]) => ~o.raised

\* the renames of run n that succeeded
Succeeded(n) == {k \in EventsOf(n) : events[k].ok}

\* C25: the count of renamed entries in the summary of a forward run is the
\* number of renames that succeeded in that run
C25_SummaryCountsRenames ==
    (~args.plan_in /\ pc = "done") => changed = Cardinality(Succeeded(runNo))

\* the <<path, new name>> pairs of a set of events
PairsOf(ks) == { <<events[k].src, events[k].dst>> : k \in ks }

\* run 1 was a dry run and run 2, with --apply on the same directory, is over
DryThenApplied ==
    /\ ~args.plan_in /\ args.apply
    /\ runNo = 2 /\ pc = "done"
    /\ \A k \in EventsOf(1) : ~events[k].issued

\* C26: the pairs a dry run reports are exactly the renames the apply run
\* performs from the same directory
C26_DryRunPredictsApply ==
    DryThenApplied => PairsOf(EventsOf(1)) = PairsOf(Succeeded(2))

\* the files and directories below the roots that are no symbolic links
Candidates == {i \in LiveIds(fs) : fs[i].par # 0 /\ fs[i].kind # "link"}

\* C27: an apply run with include_dirs takes up every file and directory
\* below a root that is no symbolic link, the entries inside a directory it
\* has renamed included
C27_EveryEntryConsidered ==
    (~args.plan_in /\ args.include_dirs /\ args.apply /\ pc = "done") => Candidates \subseteq seen

\* the template t from position at on with each token written in it replaced
\* by its value, the values themselves left as they are
RECURSIVE Expand(_, _, _)

ExpandAt(t, at, name) ==
    IF HasAt(t, TokStem, at) THEN PathStem(name) \o Expand(t, at + Len(TokStem), name)
    ELSE IF HasAt(t, TokExt, at) THEN PathSuffix(name) \o Expand(t, at + Len(TokExt), name)
    ELSE IF HasAt(t, TokParent, at) THEN Docs \o Expand(t, at + Len(TokParent), name)
    ELSE IF HasAt(t, TokCounter, at) THEN <<"1">> \o Expand(t, at + Len(TokCounter), name)
    ELSE <<t[at]>> \o Expand(t, at + 1, name)

Expand(t, at, name) == IF at > Len(t) THEN <<>> ELSE ExpandAt(t, at, name)

\* C28: rendering replaces the tokens written in the template and nothing
\* else: the text that comes from the stem, the extension or the parent
\* directory's name is left as it is
C28_OnlyTemplateTokens ==
    probe.op = "format_with_dates" =>
        probe.out = Expand(SubDates(probe.template, 1, OlderTime, FixedTime), 1, probe.name)

\* the number of entries directory d holds in file system f
EntriesIn(f, d) == Cardinality({i \in LiveIds(f) : f[i].par = d})

\* C29: a run moves no entry out of its directory and neither creates nor
\* removes one: every directory holds as many entries as before the run
C29_OnlyLastComponentChanges ==
    /\ \A i \in LiveIds(fs) : fs[i].par = fs0[i].par
    /\ \A d \in DOMAIN fs0 : EntriesIn(fs, d) = EntriesIn(fs0, d)

====
